---- MODULE Spec2Model ----
(***************************************************************************)
(* A model of argilla-server's request-boundary error handling             *)
(* (errors/api_errors.py), its fallback route (routes.py) and the          *)
(* database-url validator of its settings (settings.py).                   *)
(*                                                                         *)
(* Three state machines share the module:                                  *)
(*   Spec / FairSpec  concurrent invocations of                            *)
(*                    APIErrorHandler.common_exception_handler             *)
(*   RouteSpec        dispatch of a request over the api_router            *)
(*   UrlSpec          Settings.set_database_url applied to a URL           *)
(***************************************************************************)
EXTENDS Naturals, Sequences, FiniteSets, TLC

VARIABLES
    pc,             \* handler: position of each invocation
    failure,        \* handler: the exception given to the invocation
    headers,        \* handler: request.headers of the invocation
    argilla_error,  \* handler: local variable argilla_error
    data,           \* handler: the dict given to track_data
    responses,      \* handler: the responses returned by the invocation
    escaped,        \* handler: the exception that left the invocation
    log,            \* handler: the steps the invocation has completed
    routes,         \* routing: the (method, path) pairs of the included routers
    request,        \* routing: the request being dispatched
    result,         \* routing: what the dispatch produced
    database_url,   \* settings: the value given to the validator
    validated_url   \* settings: the value the validator returned

handlerVars == <<pc, failure, headers, argilla_error, data, responses, escaped, log>>
routeVars == <<routes, request, result>>
urlVars == <<database_url, validated_url>>
vars == <<pc, failure, headers, argilla_error, data, responses, escaped, log,
          routes, request, result, database_url, validated_url>>

(***************************************************************************)
(* Bounds                                                                  *)
(***************************************************************************)
NumRequests == 2

Requests == 1..NumRequests

(***************************************************************************)
(* Values                                                                  *)
(***************************************************************************)
\* Python's None, where a string is expected.
None == "<None>"

\* A local variable that has not been assigned yet.
Unset == [unset |-> TRUE]

\* No exception has left the handler.
NoException == "<no exception>"

(***************************************************************************)
(* errors/base_errors.py: the error taxonomy                               *)
(***************************************************************************)
ServerErrorClasses ==
    {"GenericServerError", "EntityNotFoundError", "EntityAlreadyExistsError",
     "ForbiddenOperationError", "ValidationError"}

HTTP_STATUS(error) ==
    CASE error.cls = "GenericServerError" -> 500
      [] error.cls = "EntityNotFoundError" -> 404
      [] error.cls = "EntityAlreadyExistsError" -> 409
      [] error.cls = "ForbiddenOperationError" -> 403
      [] error.cls = "ValidationError" -> 422

Code(error) ==
    CASE error.cls = "GenericServerError" -> "generic-server-error"
      [] error.cls = "EntityNotFoundError" -> "entity-not-found"
      [] error.cls = "EntityAlreadyExistsError" -> "entity-already-exists"
      [] error.cls = "ForbiddenOperationError" -> "forbidden-operation"
      [] error.cls = "ValidationError" -> "validation-error"

\* isinstance(error, classes); the modelled taxonomy is flat under ServerError.
IsInstance(error, classes) == error.cls \in classes

\* The ErrorValues a route handler raises.
ErrorValues ==
    {[cls |-> "EntityNotFoundError", type |-> "Dataset", arguments |-> [id |-> "abc-123"]],
     [cls |-> "EntityAlreadyExistsError", type |-> "Workspace",
      arguments |-> [name |-> "ws", id |-> "abc-123"]],
     [cls |-> "GenericServerError", type |-> "builtins.KeyError",
      arguments |-> [message |-> "missing"]],
     [cls |-> "ForbiddenOperationError", arguments |-> [message |-> "denied"]]}

\* The failures that are not ErrorValues: one of a registered kind, one not.
RegisteredKinds == {"RequestValidationError"}

OtherFailures ==
    {[cls |-> "RequestValidationError", summary |-> "field required",
      trace |-> "Traceback: validate()"],
     [cls |-> "RuntimeError", summary |-> "boom", trace |-> "Traceback: run()"]}

Failures == ErrorValues \cup OtherFailures

(***************************************************************************)
(* errors/adapter.py                                                       *)
(***************************************************************************)
exception_to_argilla_error(error) ==
    IF IsInstance(error, ServerErrorClasses) THEN error
    ELSE IF error.cls \in RegisteredKinds
    THEN [cls |-> "ValidationError", arguments |-> [message |-> error.summary]]
    ELSE [cls |-> "GenericServerError", type |-> error.cls,
          arguments |-> [message |-> error.summary]]

(***************************************************************************)
(* errors/api_errors.py                                                    *)
(***************************************************************************)
\* The request headers of an invocation: a mapping from header name to value.
HeaderSets ==
    {("host" :> "localhost"),
     ("host" :> "localhost") @@ ("user-agent" :> "curl/8.0") @@ ("accept-language" :> "en")}

\* request.headers.get(name)
HeadersGet(hdrs, name) == IF name \in DOMAIN hdrs THEN hdrs[name] ELSE None

\* A faulty variant of ErrorDetail: the params are not passed on.
ErrorDetailWithoutParams(code, params) == [code |-> code, params |-> [message |-> ""]]

\* ErrorDetail(code=..., params=...).dict()
ErrorDetail(code, params) == [code |-> code, params |-> params]

\* A faulty variant of ServerHTTPException: the status is left at the server-error default.
ServerHTTPExceptionDefaultStatus(error) ==
    [status_code |-> HTTP_STATUS([cls |-> "GenericServerError"]),
     detail |-> ErrorDetail(Code(error), error.arguments)]

\* ServerHTTPException(error): an HTTPException with status_code and detail.
ServerHTTPException(error) ==
    [status_code |-> HTTP_STATUS(error),
     detail |-> ErrorDetail(Code(error), error.arguments)]

\* fastapi's http_exception_handler(request, exc):
\* JSONResponse({"detail": exc.detail}, status_code=exc.status_code).
http_exception_handler(exc) ==
    [status |-> exc.status_code, body |-> [detail |-> exc.detail]]

\* The classes track_error reads error.type of.
TypedClasses == {"GenericServerError", "EntityNotFoundError", "EntityAlreadyExistsError"}

\* A faulty variant of TrackErrorData: EntityAlreadyExistsError is missing from the
\* isinstance tuple.
TrackErrorDataTwoClasses(error, hdrs) ==
    LET base == ("code" :> Code(error))
                @@ ("user-agent" :> HeadersGet(hdrs, "user-agent"))
                @@ ("accept-language" :> HeadersGet(hdrs, "accept-language"))
    IN  IF IsInstance(error, {"GenericServerError", "EntityNotFoundError"})
        THEN base @@ ("type" :> error.type)
        ELSE base

\* The dict track_error builds (lines 48-54).
TrackErrorData(error, hdrs) ==
    LET base == ("code" :> Code(error))
                @@ ("user-agent" :> HeadersGet(hdrs, "user-agent"))
                @@ ("accept-language" :> HeadersGet(hdrs, "accept-language"))
    IN  IF IsInstance(error, TypedClasses)
        THEN base @@ ("type" :> error.type)
        ELSE base

\* A faulty variant of HandlerError: the classified error is kept in one slot shared by
\* all invocations, which holds the error of some invocation that classified.
SharedHandlerError(r) ==
    argilla_error[CHOOSE q \in Requests : argilla_error[q] # Unset]

\* The error the handler passes on: its own local variable argilla_error.
HandlerError(r) == argilla_error[r]

\* A faulty variant of TrackErrorAwaited: track_error is started and not awaited.
TrackErrorNotAwaited(r) == TRUE

\* `await APIErrorHandler.track_error(...)` has returned to the handler.
TrackErrorAwaited(r) == pc[r] = "tracked"

HandlerIdle ==
    /\ pc = [r \in Requests |-> "idle"]
    /\ failure = [r \in Requests |-> Unset]
    /\ headers = [r \in Requests |-> Unset]
    /\ argilla_error = [r \in Requests |-> Unset]
    /\ data = [r \in Requests |-> Unset]
    /\ responses = [r \in Requests |-> <<>>]
    /\ escaped = [r \in Requests |-> NoException]
    /\ log = [r \in Requests |-> <<>>]

RouteIdle ==
    /\ routes = {}
    /\ request = Unset
    /\ result = Unset

UrlIdle ==
    /\ database_url = <<>>
    /\ validated_url = Unset

Init == HandlerIdle /\ RouteIdle /\ UrlIdle

\* The framework's exception hook calls common_exception_handler(request, error).
Invoke(r) ==
    /\ pc[r] = "idle"
    /\ \E f \in Failures, h \in HeaderSets :
        /\ failure' = [failure EXCEPT ![r] = f]
        /\ headers' = [headers EXCEPT ![r] = h]
    /\ pc' = [pc EXCEPT ![r] = "handling"]
    /\ UNCHANGED <<argilla_error, data, responses, escaped, log>>
    /\ UNCHANGED <<routeVars, urlVars>>

\* Line 61: argilla_error = exception_to_argilla_error(error)
Classify(r) ==
    /\ pc[r] = "handling"
    /\ argilla_error' = [argilla_error EXCEPT ![r] = exception_to_argilla_error(failure[r])]
    /\ log' = [log EXCEPT ![r] = Append(@, "classify")]
    /\ pc' = [pc EXCEPT ![r] = "classified"]
    /\ UNCHANGED <<failure, headers, data, responses, escaped>>
    /\ UNCHANGED <<routeVars, urlVars>>

\* Lines 62, 48-56: track_error is entered, builds data and calls track_data.
TrackError(r) ==
    /\ pc[r] = "classified"
    /\ data' = [data EXCEPT ![r] = TrackErrorData(HandlerError(r), headers[r])]
    /\ log' = [log EXCEPT ![r] = Append(@, "track_error")]
    /\ pc' = [pc EXCEPT ![r] = "track_data"]
    /\ UNCHANGED <<failure, headers, argilla_error, responses, escaped>>
    /\ UNCHANGED <<routeVars, urlVars>>

\* Line 56: track_data returns; track_error returns to the handler.
TrackDataReturns(r) ==
    /\ pc[r] = "track_data"
    /\ log' = [log EXCEPT ![r] = Append(@, "track_error_done")]
    /\ pc' = [pc EXCEPT ![r] = "tracked"]
    /\ UNCHANGED <<failure, headers, argilla_error, data, responses, escaped>>
    /\ UNCHANGED <<routeVars, urlVars>>

\* Line 56: track_data raises. Neither track_error nor the handler has a
\* try/except, so the exception leaves both.
TrackDataRaises(r) ==
    /\ pc[r] = "track_data"
    /\ escaped' = [escaped EXCEPT ![r] = "TelemetryError"]
    /\ pc' = [pc EXCEPT ![r] = "track_data_raised"]
    /\ UNCHANGED <<failure, headers, argilla_error, data, responses, log>>
    /\ UNCHANGED <<routeVars, urlVars>>

\* Line 56: the transport blocks inside track_data; the call is made in line
\* and nothing bounds it.
TrackDataSuspends(r) ==
    /\ pc[r] = "track_data"
    /\ pc' = [pc EXCEPT ![r] = "suspended"]
    /\ UNCHANGED <<failure, headers, argilla_error, data, responses, escaped, log>>
    /\ UNCHANGED <<routeVars, urlVars>>

\* A blocked track_data returns after all: the transport decides whether.
TrackDataResumes(r) ==
    /\ pc[r] = "suspended"
    /\ log' = [log EXCEPT ![r] = Append(@, "track_error_done")]
    /\ pc' = [pc EXCEPT ![r] = "tracked"]
    /\ UNCHANGED <<failure, headers, argilla_error, data, responses, escaped>>
    /\ UNCHANGED <<routeVars, urlVars>>

\* Line 64: return await http_exception_handler(request, ServerHTTPException(argilla_error))
Respond(r) ==
    /\ pc[r] \notin {"idle", "handling", "responded", "track_data_raised"}
    /\ TrackErrorAwaited(r)
    /\ responses' = [responses EXCEPT
                       ![r] = Append(@, http_exception_handler(ServerHTTPException(HandlerError(r))))]
    /\ log' = [log EXCEPT ![r] = Append(@, "respond")]
    /\ pc' = [pc EXCEPT ![r] = "responded"]
    /\ UNCHANGED <<failure, headers, argilla_error, data, escaped>>
    /\ UNCHANGED <<routeVars, urlVars>>

Next ==
    \E r \in Requests :
        \/ Invoke(r)
        \/ Classify(r)
        \/ TrackError(r)
        \/ TrackDataReturns(r)
        \/ TrackDataRaises(r)
        \/ TrackDataSuspends(r)
        \/ TrackDataResumes(r)
        \/ Respond(r)

Spec == Init /\ [][Next]_vars

\* The event loop runs every step of the handler that can run, and a transport
\* that is not blocked returns or raises. Nothing makes a blocked transport resume.
FairSpec ==
    /\ Spec
    /\ \A r \in Requests :
        /\ WF_vars(Classify(r))
        /\ WF_vars(TrackError(r))
        /\ WF_vars(TrackDataReturns(r) \/ TrackDataRaises(r) \/ TrackDataSuspends(r))
        /\ WF_vars(Respond(r))

(***************************************************************************)
(* Properties of the handler                                               *)
(***************************************************************************)
\* The invocations that were given a failure.
Invoked == {r \in Requests : pc[r] # "idle"}

\* The invocations that have classified their failure.
Classified == {r \in Requests : argilla_error[r] # Unset}

\* C1 (as claimed): telemetry isolation. When track_data has raised for an
\* invocation, no exception has left common_exception_handler.
C1_TelemetryIsolation ==
    \A r \in Requests : pc[r] = "track_data_raised" => escaped[r] = NoException

\* C2 (as claimed): no invocation lets an exception escape, none returns more
\* than one response, and an invocation that has ended returned exactly one.
C2_ExactlyOneResponse ==
    \A r \in Requests :
        /\ escaped[r] = NoException
        /\ Len(responses[r]) <= 1
        /\ pc[r] \in {"responded", "track_data_raised"} => Len(responses[r]) = 1

\* The order of the handler's steps.
HandlerOrder == <<"classify", "track_error", "track_error_done", "respond">>

IsPrefix(s, t) == Len(s) <= Len(t) /\ \A i \in 1..Len(s) : s[i] = t[i]

\* C3: for every invocation the steps completed so far are an initial part of
\* classify, track_error started, track_error returned, response built: the
\* classification precedes the telemetry report, which has returned before the
\* response is built.
C3_FixedOrder == \A r \in Requests : IsPrefix(log[r], HandlerOrder)

\* C3 witness: an invocation went through all four steps.
C3_Witness == \E r \in Requests : log[r] = HandlerOrder /\ pc[r] = "responded"

\* C4 (as claimed): an invocation whose track_data call is blocked still
\* eventually reaches Responded.
C4_BlockedTelemetryStillResponds ==
    \A r \in Requests : (pc[r] = "suspended") ~> (pc[r] = "responded")

C6_TypeOnlyForTypedErrors ==
    \A r \in Requests :
        data[r] # Unset =>
            LET typed == argilla_error[r].cls \in
                    {"GenericServerError", "EntityNotFoundError", "EntityAlreadyExistsError"}
            IN  /\ ("type" \in DOMAIN data[r]) <=> typed
                /\ typed => data[r]["type"] = argilla_error[r].type

\* C6 witness: one record was built with a type and one without.
C6_Witness ==
    \E r, q \in Requests :
        /\ data[r] # Unset /\ "type" \in DOMAIN data[r]
        /\ argilla_error[r].cls = "EntityAlreadyExistsError"
        /\ data[q] # Unset /\ "type" \notin DOMAIN data[q]

\* What an invocation has of its own.
Own(r) == <<pc[r], failure[r], headers[r], argilla_error[r], data[r],
            responses[r], escaped[r], log[r]>>

\* The telemetry record and the responses of an invocation carry the code of
\* the classification of its own failure.
AgreesWithOwnError(r) ==
    LET own == exception_to_argilla_error(failure[r])
    IN  /\ data[r] # Unset => data[r]["code"] = Code(own)
        /\ \A i \in 1..Len(responses[r]) :
               /\ responses[r][i].body.detail.code = Code(own)
               /\ responses[r][i].status = HTTP_STATUS(own)

\* C7: in every step of every interleaving, each invocation's telemetry record
\* and response carry the code of its own classified error, and a step changes
\* nothing of the invocations that did not take it.
C7_InvocationsIndependent ==
    [][ /\ \A r \in Requests : pc'[r] # "idle" => AgreesWithOwnError(r)'
        /\ \A r \in Requests : pc'[r] = pc[r] => Own(r)' = Own(r) ]_vars

\* C7 witness: two invocations with different errors have both reported and
\* responded.
C7_Witness ==
    \E r, q \in Requests :
        /\ pc[r] = "responded" /\ pc[q] = "responded"
        /\ data[r]["code"] # data[q]["code"]
        /\ responses[r][1].body.detail.code = data[r]["code"]
        /\ responses[q][1].body.detail.code = data[q]["code"]

Methods == {"GET", "POST", "PUT", "DELETE", "PATCH", "HEAD", "OPTIONS", "TRACE"}

\* Request paths under the router, as their pieces in order.
Paths == {<<"/">>, <<"/", "unknown", "/", "path">>, <<"/", "v1", "/", "datasets">>,
          <<"/", "v1", "/", "me">>}

\* The routes the included routers may register before the fallback route.
RouterRoutes ==
    {[path |-> <<"/", "v1", "/", "datasets">>, methods |-> {"GET", "POST"}],
     [path |-> <<"/", "v1", "/", "me">>, methods |-> {"GET"}],
     [path |-> <<"/", "v1", "/", "datasets">>, methods |-> {"DELETE"}]}

RECURSIVE UrlPath(_)
\* request.url.path: the pieces of the path as one string.
UrlPath(pieces) ==
    IF pieces = <<>> THEN "" ELSE Head(pieces) \o UrlPath(Tail(pieces))

\* repr() of a str without quotes in it (the conversion !r).
Repr(str) == "'" \o str \o "'"

\* The methods of a Route: those given, and HEAD wherever GET is given.
RouteMethods(methods) == methods \cup (IF "GET" \in methods THEN {"HEAD"} ELSE {})

\* Line 85: methods=["GET", "POST", "PUT", "DELETE", "PATCH"]
FallbackMethods == RouteMethods({"GET", "POST", "PUT", "DELETE", "PATCH"})

\* Line 85: the path "/{_:path}" matches "/" followed by anything.
FallbackPathMatches(path) == path # <<>> /\ Head(path) = "/"

\* Lines 86-87: endpoint_not_found_controller raises this HTTPException.
endpoint_not_found_controller(req) ==
    [status_code |-> 404,
     detail |-> "Endpoint " \o Repr(UrlPath(req.path)) \o " not found"]

\* A route of an included router matches the request in path and method.
MatchedByRouter(req, rts) ==
    \E rt \in rts : rt.path = req.path /\ req.method \in RouteMethods(rt.methods)

\* The router's dispatch: the first route matching path and method handles the
\* request; failing that, the first route matching the path alone answers
\* 405; the fallback route is the last one.
Dispatch(req, rts) ==
    IF MatchedByRouter(req, rts)
    THEN [handled_by |-> "router"]
    ELSE IF FallbackPathMatches(req.path) /\ req.method \in FallbackMethods
    THEN endpoint_not_found_controller(req)
    ELSE IF FallbackPathMatches(req.path) \/ \E rt \in rts : rt.path = req.path
    THEN [status_code |-> 405, detail |-> "Method Not Allowed"]
    ELSE [status_code |-> 404, detail |-> "Not Found"]

RouteInit ==
    /\ HandlerIdle /\ UrlIdle
    /\ routes \in SUBSET RouterRoutes
    /\ request = Unset
    /\ result = Unset

\* A request arrives at the api_router and is dispatched.
Serve ==
    /\ \E m \in Methods, p \in Paths :
        /\ request' = [method |-> m, path |-> p]
        /\ result' = Dispatch([method |-> m, path |-> p], routes)
    /\ UNCHANGED routes
    /\ UNCHANGED <<handlerVars, urlVars>>

RouteNext == Serve

RouteSpec == RouteInit /\ [][RouteNext]_vars

\* C8 (as claimed): every request that no route of the included routers matches
\* in path and method gets a 404 whose detail states the request path, whatever
\* its method.
C8_UnmatchedIsNotFound ==
    (request # Unset /\ ~MatchedByRouter(request, routes)) =>
        /\ result.status_code = 404
        /\ result.detail = "Endpoint '" \o UrlPath(request.path) \o "' not found"

(***************************************************************************)
(* settings.py: Settings.set_database_url                                  *)
(***************************************************************************)
MaxUrlLen == 4

\* A URL is a sequence of pieces. The pieces are the literals the validator
\* looks for, split where one contains another ("+aiosqlite" is "+aio"
\* followed by "sqlite"), and two pieces holding none of them.
Pieces == {"sqlite", "+aio", "postgresql", "+asyncpg", "+psycopg2", "://", "/db"}

Urls == UNION {[1..n -> Pieces] : n \in 0..MaxUrlLen}

\* values.get("home_path")
HomePath == "~/.argilla"

\* `piece in database_url`
Contains(url, piece) == \E i \in 1..Len(url) : url[i] = piece

\* `url` reads +aiosqlite from position i on.
AioSqliteAt(url, i) == i + 1 <= Len(url) /\ url[i] = "+aio" /\ url[i + 1] = "sqlite"

\* Line 139: sqlite(?!\+aiosqlite) matches at position i; 0 when it does not,
\* else the number of pieces matched.
SqliteMatch(url, i) ==
    IF i <= Len(url) /\ url[i] = "sqlite" /\ ~AioSqliteAt(url, i + 1) THEN 1 ELSE 0

\* Line 149: postgresql(?!\+asyncpg)(\+psycopg2)? matches at position i.
PostgresqlMatch(url, i) ==
    IF i <= Len(url) /\ url[i] = "postgresql"
       /\ ~(i + 1 <= Len(url) /\ url[i + 1] = "+asyncpg")
    THEN IF i + 1 <= Len(url) /\ url[i + 1] = "+psycopg2" THEN 2 ELSE 1
    ELSE 0

RECURSIVE SubSqlite(_, _)
\* Line 146: re.sub(regex, "sqlite+aiosqlite", database_url) from position i:
\* every match in the string is replaced, left to right.
SubSqlite(url, i) ==
    IF i > Len(url) THEN <<>>
    ELSE IF SqliteMatch(url, i) > 0
    THEN <<"sqlite", "+aio", "sqlite">> \o SubSqlite(url, i + SqliteMatch(url, i))
    ELSE <<url[i]>> \o SubSqlite(url, i + 1)

RECURSIVE SubPostgresql(_, _)
\* Line 156: re.sub(regex, "postgresql+asyncpg", database_url) from position i.
SubPostgresql(url, i) ==
    IF i > Len(url) THEN <<>>
    ELSE IF PostgresqlMatch(url, i) > 0
    THEN <<"postgresql", "+asyncpg">> \o SubPostgresql(url, i + PostgresqlMatch(url, i))
    ELSE <<url[i]>> \o SubPostgresql(url, i + 1)

\* Lines 131-158.
set_database_url(url, home_path) ==
    IF url = <<>>
    THEN <<"sqlite", "+aio", "sqlite", "://", "/", home_path, "/argilla.db",
           "?check_same_thread=False">>
    ELSE IF Contains(url, "sqlite") /\ SqliteMatch(url, 1) > 0
    THEN SubSqlite(url, 1)
    ELSE IF Contains(url, "postgresql") /\ PostgresqlMatch(url, 1) > 0
    THEN SubPostgresql(url, 1)
    ELSE url

UrlInit ==
    /\ HandlerIdle /\ RouteIdle
    /\ database_url \in Urls
    /\ validated_url = Unset

\* Settings() is constructed: the validator runs on database_url.
Validate ==
    /\ validated_url = Unset
    /\ validated_url' = [value |-> set_database_url(database_url, HomePath)]
    /\ UNCHANGED database_url
    /\ UNCHANGED <<handlerVars, routeVars>>

UrlNext == Validate

UrlSpec == UrlInit /\ [][UrlNext]_vars

\* The pieces of `url` after its first n.
Rest(url, n) == SubSeq(url, n + 1, Len(url))

\* C10 (as claimed): only the leading protocol is replaced. A URL starting with
\* sqlite but not sqlite+aiosqlite comes back with that first piece replaced by
\* sqlite+aiosqlite and the rest as it was; one starting with postgresql or
\* postgresql+psycopg2 but not postgresql+asyncpg comes back with that protocol
\* replaced by postgresql+asyncpg and the rest as it was; one already on the
\* async driver comes back unchanged.
C10_OnlyProtocolReplaced ==
    (validated_url # Unset /\ database_url # <<>>) =>
        LET url == database_url
            out == validated_url.value
        IN  /\ (url[1] = "sqlite" /\ ~AioSqliteAt(url, 2)) =>
                   out = <<"sqlite", "+aio", "sqlite">> \o Rest(url, 1)
            /\ (url[1] = "postgresql" /\ Len(url) >= 2 /\ url[2] = "+psycopg2") =>
                   out = <<"postgresql", "+asyncpg">> \o Rest(url, 2)
            /\ (url[1] = "postgresql" /\ ~(Len(url) >= 2 /\ url[2] \in {"+psycopg2", "+asyncpg"})) =>
                   out = <<"postgresql", "+asyncpg">> \o Rest(url, 1)
            /\ (url[1] = "sqlite" /\ AioSqliteAt(url, 2)) => out = url
            /\ (url[1] = "postgresql" /\ Len(url) >= 2 /\ url[2] = "+asyncpg") => out = url

====
